---- MODULE Spec2Model ----
(***************************************************************************)
(* AssetDome fixed-asset register: the Asset entity's persistence          *)
(* lifecycle (code generation, valuation, validation), the REST handlers   *)
(* that write assets (asset endpoint, disposed-asset endpoint, import) and *)
(* the active-asset id cache the asset endpoint consults.                  *)
(*                                                                         *)
(* Money is in cents (DecimalField, decimal_places=2).  Dates are day      *)
(* numbers; timestamps are clock ticks.  None is NullTime / NullUser.      *)
(*                                                                         *)
(* Four specifications share the state and the handlers and differ in the  *)
(* requests they draw:                                                     *)
(*   Spec           the disposal lifecycle of one asset                    *)
(*   SpecCodes      asset codes under creates, disposals and deletes       *)
(*   SpecValuation  net book value under saves as the calendar advances    *)
(*   SpecConc       creates and updates of concurrent workers              *)
(***************************************************************************)
EXTENDS Integers, Sequences, FiniteSets, TLC

(***************************** bounds **************************************)
MaxTime == 1
MaxPeriods == 3
TicksPerPeriod == 4
DaysPerPeriod == 400
MaxPriceCents == 40000
MaxIdsCodes == 4
MaxIdsConc == 2

Users == {"alice", "bob"}
\* MajorCategory names: the two of the economic-life table and one other
Categories == {"ICT", "Furniture", "Vehicles"}
BarcodeSeq == <<"B1", "B2", "B3", "B4", "B5", "B6">>

NullTime == -1
NullUser == "None"

(************************ Asset Code Generator *****************************)
CodeWidth == 6
DigitChars == <<"0", "1", "2", "3", "4", "5", "6", "7", "8", "9">>

\* str(n) for n >= 0
RECURSIVE Digits(_)
Digits(n) ==
    IF n < 10 THEN <<DigitChars[n + 1]>>
    ELSE Append(Digits(n \div 10), DigitChars[(n % 10) + 1])

\* the zero padding of the format spec {:06d}
RECURSIVE ZeroPad(_, _)
ZeroPad(s, w) == IF Len(s) >= w THEN s ELSE ZeroPad(<<"0">> \o s, w)

\* f'AS{n:06d}'
FormatCode(n) == <<"A", "S">> \o ZeroPad(Digits(n), CodeWidth)

DigitVal(c) == CHOOSE d \in 0..9 : DigitChars[d + 1] = c

\* int(s) for a string of decimal digits
RECURSIVE ParseInt(_)
ParseInt(s) ==
    IF Len(s) = 0 THEN 0
    ELSE ParseInt(SubSeq(s, 1, Len(s) - 1)) * 10 + DigitVal(s[Len(s)])

\* Asset.objects.order_by('-id').first()
LastAsset(db) == db[CHOOSE i \in DOMAIN db : \A j \in DOMAIN db : j <= i]

\* a generator that steps over a number
generate_asset_code_skip(db) ==
    IF DOMAIN db = {} THEN <<"A", "S", "0", "0", "0", "0", "0", "1">>
    ELSE FormatCode(ParseInt(SubSeq(LastAsset(db).asset_code, 3,
                                    Len(LastAsset(db).asset_code))) + 2)

generate_asset_code(db) ==
    IF DOMAIN db = {} THEN <<"A", "S", "0", "0", "0", "0", "0", "1">>
    ELSE FormatCode(ParseInt(SubSeq(LastAsset(db).asset_code, 3,
                                    Len(LastAsset(db).asset_code))) + 1)

(*************************** Valuation Engine ******************************)
\* quantize(Decimal('0.01')) under ROUND_HALF_EVEN of the rational n / d, n >= 0, d > 0
RoundHalfEven(n, d) ==
    LET q == n \div d
        r == n % d
    IN  IF 2 * r < d THEN q
        ELSE IF 2 * r > d THEN q + 1
        ELSE IF q % 2 = 0 THEN q ELSE q + 1

RECURSIVE Pow(_, _)
Pow(b, e) == IF e = 0 THEN 1 ELSE b * Pow(b, e - 1)

\* int(years_in_use): whole years in `days` days of 365.25 days each
WholeYears(days) == IF days <= 0 THEN 0 ELSE (4 * days) \div 1461

\* a net book value without the floor max(Decimal(0), ...)
calculate_depreciation_unfloored(a, today) ==
    LET days == today - a.date_of_purchase
        P == a.purchase_price
        L == a.economic_life
        n == WholeYears(days)
    IN  IF a.depreciation_method = "STRAIGHT_LINE"
        THEN IF 1461 * L - 4 * days <= 0
             THEN 0 - RoundHalfEven(P * (4 * days - 1461 * L), 1461 * L)
             ELSE RoundHalfEven(P * (1461 * L - 4 * days), 1461 * L)
        ELSE IF P * Pow(L - 2, n) <= 0 THEN 0
             ELSE RoundHalfEven(P * Pow(L - 2, n), Pow(L, n))

\* years_in_use = days / 365.25 = 4 * days / 1461
calculate_depreciation(a, today) ==
    LET days == today - a.date_of_purchase
        P == a.purchase_price
        L == a.economic_life
        n == WholeYears(days)
    IN  IF a.depreciation_method = "STRAIGHT_LINE"
        THEN IF 1461 * L - 4 * days <= 0 THEN 0
             ELSE RoundHalfEven(P * (1461 * L - 4 * days), 1461 * L)
        ELSE IF P * Pow(L - 2, n) <= 0 THEN 0
             ELSE RoundHalfEven(P * Pow(L - 2, n), Pow(L, n))

calculate_accumulated_depreciation(a, today) ==
    LET days == today - a.date_of_purchase
        P == a.purchase_price
        L == a.economic_life
        n == WholeYears(days)
    IN  IF days <= 0 THEN 0
        ELSE IF a.depreciation_method = "STRAIGHT_LINE"
        THEN IF 4 * days >= 1461 * L THEN P
             ELSE RoundHalfEven(P * 4 * days, 1461 * L)
        ELSE RoundHalfEven(P * (Pow(L, n) - Pow(L - 2, n)), Pow(L, n))

set_economic_life(a) ==
    IF a.major_category = "Furniture" THEN 8
    ELSE IF a.major_category = "ICT" THEN 3
    ELSE 5

validate_purchase_price(a) == a.purchase_price >= 0

validate_dates(a, today) ==
    /\ a.date_placed_in_service # NullTime
    /\ a.date_of_purchase # NullTime
    /\ a.date_placed_in_service <= today

is_price_per_unit(a) ==
    IF a.price_is_per_unit
    THEN [a EXCEPT !.purchase_price = a.purchase_price * a.units]
    ELSE a

(******************************* state *************************************)
VARIABLES
    assets,     \* the Asset table: id -> row
    nextId,     \* the table's auto-increment primary key
    clock,      \* timezone.now(), in ticks
    cache,      \* django.core.cache: key -> value, for the keys present
    last,       \* the last request and the status it was answered with
    issued,     \* history: the asset codes of the rows inserted, in order
    procs,      \* in-flight requests of the interleaved specification
    refs,       \* the MajorCategory table: the names of its rows
    calc        \* a function call: its arguments and, once evaluated, its result

vars == <<assets, nextId, clock, cache, last, issued, procs, refs, calc>>

\* timezone.now().date() and date.today(): the day number of the clock's period
Today == (clock \div TicksPerPeriod) * DaysPerPeriod

NoRow == [id |-> 0]
NoCall == [fn |-> "none"]

Asked(data) == IF "is_disposed" \in DOMAIN data THEN data.is_disposed ELSE "absent"
AskedBarcode(data) == IF "barcode" \in DOMAIN data THEN data.barcode ELSE "absent"

\* a log that records every answer as an error
ResponseAsError(op, id, data, user, status) ==
    [op |-> op, id |-> id, asked |-> Asked(data), barcode |-> AskedBarcode(data),
     user |-> user, status |-> 400, conflicts |-> 0, seq |-> 1 - last.seq]

\* what the log keeps of a request: the handler, the target, the is_disposed and
\* the barcode it asked for, the authenticated user, the HTTP status of the answer
\* and the length of the import's conflict log; seq alternates from one request to
\* the next
Response(op, id, data, user, status) ==
    [op |-> op, id |-> id, asked |-> Asked(data), barcode |-> AskedBarcode(data),
     user |-> user, status |-> status, conflicts |-> 0, seq |-> 1 - last.seq]

\* Asset(): the field defaults of the model
AssetDefaults ==
    [ id |-> 0, asset_code |-> <<>>, barcode |-> "", major_category |-> "",
      economic_life |-> 5, purchase_price |-> 0, price_is_per_unit |-> FALSE,
      net_book_value |-> 0, units |-> 0, date_of_purchase |-> NullTime,
      date_placed_in_service |-> NullTime, depreciation_method |-> "STRAIGHT_LINE",
      created_by |-> NullUser, updated_by |-> NullUser, disposed_at |-> NullTime,
      undisposed_at |-> NullTime, is_disposed |-> FALSE, disposed_by |-> NullUser,
      undisposed_by |-> NullUser, accumulated_depreciation |-> 0 ]

\* setattr(instance, attr, value) for every item of a dict
SetAttrs(a, d) == [f \in DOMAIN a |-> IF f \in DOMAIN d THEN d[f] ELSE a[f]]

\* dict.pop / dict without some keys
Without(d, ks) == [f \in DOMAIN d \ ks |-> d[f]]

(************************* Asset.save and delete ***************************)
\* a save that computes the net book value but keeps the accumulated
\* depreciation the instance came with
save_instance_keeping_accumulated(db, a, today) ==
    LET a1 == IF a.asset_code = <<>>
              THEN [a EXCEPT !.asset_code = generate_asset_code(db)] ELSE a
        a2 == [a1 EXCEPT !.economic_life = set_economic_life(a1)]
        a3 == is_price_per_unit(a2)
    IN  [a3 EXCEPT !.net_book_value = calculate_depreciation(a3, today)]

\* the instance as Asset.save leaves it just before super().save()
save_instance(db, a, today) ==
    LET a1 == IF a.asset_code = <<>>
              THEN [a EXCEPT !.asset_code = generate_asset_code(db)] ELSE a
        a2 == [a1 EXCEPT !.economic_life = set_economic_life(a1)]
        a3 == is_price_per_unit(a2)
        a4 == [a3 EXCEPT !.net_book_value = calculate_depreciation(a3, today)]
    IN  [a4 EXCEPT !.accumulated_depreciation =
                        calculate_accumulated_depreciation(a4, today)]

\* the unique=True columns, checked by the database against the other rows
UniqueOk(db, a) ==
    \A j \in DOMAIN db \ {a.id} :
        /\ db[j].asset_code # a.asset_code
        /\ db[j].barcode # a.barcode

\* DecimalField(max_digits): format_number raises on a value with more digits
FitsDecimal(a) == a.purchase_price <= MaxPriceCents

\* Asset.save completes without raising
save_ok(db, a, today) ==
    /\ validate_purchase_price(a)
    /\ validate_dates(a, today)
    /\ FitsDecimal(save_instance(db, a, today))
    /\ UniqueOk(db, save_instance(db, a, today))

\* super().save() of a prepared instance: INSERT with a fresh id when pk is None,
\* else UPDATE of every column of the row
write_row(db, row, newId) ==
    LET key == IF row.id = 0 THEN newId ELSE row.id
    IN  [i \in DOMAIN db \cup {key} |->
            IF i = key THEN [row EXCEPT !.id = key] ELSE db[i]]

\* the table after Asset.save
save_table(db, a, today, newId) == write_row(db, save_instance(db, a, today), newId)

delete_table(db, id) == [i \in DOMAIN db \ {id} |-> db[i]]

(************************ cache and its invalidation ***********************)
CacheGet(c, k) == IF k \in DOMAIN c THEN c[k] ELSE {}
CacheSet(c, k, v) == [x \in DOMAIN c \cup {k} |-> IF x = k THEN v ELSE c[x]]
CacheDelete(c, k) == [x \in DOMAIN c \ {k} |-> c[x]]

\* a receiver that forgets the list of active assets
clear_asset_cache_summary_only(c, instance) ==
    LET c1 == CacheDelete(c, "asset_summary_cache")
    IN  IF instance.is_disposed THEN CacheDelete(c1, "disposed_assets") ELSE c1

\* a receiver for the reference tables that clears the asset lists as well
clear_asset_summary_cache_and_lists(c) ==
    CacheDelete(CacheDelete(CacheDelete(c, "asset_summary_cache"),
                            "active_assets"), "disposed_assets")

\* receiver of post_save / post_delete of Department, Supplier, Location,
\* MajorCategory, MinorCategory and Employee
clear_asset_summary_cache(c) == CacheDelete(c, "asset_summary_cache")

\* receiver of post_save / post_delete of Asset
clear_asset_cache(c, instance) ==
    LET c1 == CacheDelete(CacheDelete(c, "asset_summary_cache"), "active_assets")
    IN  IF instance.is_disposed THEN CacheDelete(c1, "disposed_assets") ELSE c1

(**************************** request values *******************************)
\* is_disposed as it arrives in request.data is a JSON boolean ("json_true",
\* "json_false") or a form string ("str_true", "str_false")

\* Python truthiness of the raw value
Truthy(raw) == raw # "json_false"

\* BooleanField.to_internal_value
ToBool(raw) == raw \in {"json_true", "str_true"}

NoParams == [f \in {} |-> ""]

(***************************** AssetSerializer *****************************)
ReadOnlyFields == {"id", "created_by", "updated_by", "asset_code", "net_book_value"}
RequiredFields == {"barcode", "major_category", "date_of_purchase",
                   "date_placed_in_service"}

\* to_internal_value: read-only fields dropped, is_disposed parsed
ToInternal(data) ==
    [f \in DOMAIN data \ ReadOnlyFields |->
        IF f = "is_disposed" THEN ToBool(data[f]) ELSE data[f]]

BarcodeTaken(db, barcode, exceptId) ==
    \E j \in DOMAIN db \ {exceptId} : db[j].barcode = barcode

\* the field validators: required, validate_<field>, the related MajorCategory
\* looked up by name, and the UniqueValidator that a ModelSerializer attaches to a
\* unique=True field
FieldsValid(db, instance, data, partial, today) ==
    /\ partial \/ RequiredFields \subseteq DOMAIN data
    /\ "purchase_price" \in DOMAIN data =>
            data.purchase_price >= 0 /\ data.purchase_price <= MaxPriceCents
    /\ "date_of_purchase" \in DOMAIN data => data.date_of_purchase <= today
    /\ "date_placed_in_service" \in DOMAIN data =>
            data.date_placed_in_service <= today
    /\ "units" \in DOMAIN data => data.units > 0
    /\ "major_category" \in DOMAIN data => data.major_category \in refs
    /\ "barcode" \in DOMAIN data => ~BarcodeTaken(db, data.barcode, instance.id)

\* AssetSerializer.validate
validate(db, instance, attrs) ==
    IF instance.id # 0
    THEN \A j \in DOMAIN db :
            (/\ db[j].asset_code = instance.asset_code
             /\ "barcode" \in DOMAIN attrs
             /\ db[j].barcode # attrs.barcode)
            => ~BarcodeTaken(db, attrs.barcode, 0)
    ELSE "barcode" \in DOMAIN attrs => ~BarcodeTaken(db, attrs.barcode, 0)

AssetSerializerValid(db, instance, data, partial, today) ==
    /\ FieldsValid(db, instance, data, partial, today)
    /\ validate(db, instance, ToInternal(data))

\* AssetSerializer.create: the instance handed to Asset.save
create_instance(validated_data, user) ==
    [SetAttrs(AssetDefaults, validated_data) EXCEPT !.created_by = user]

\* AssetSerializer.update: the instance handed to Asset.save
update_instance(instance, validated_data, user, now) ==
    LET disposing == /\ "is_disposed" \in DOMAIN validated_data
                     /\ validated_data.is_disposed
        i1 == IF disposing
              THEN [instance EXCEPT !.is_disposed = TRUE, !.disposed_at = now,
                                    !.disposed_by = user, !.updated_by = user]
              ELSE instance
        i2 == SetAttrs(i1, Without(validated_data, {"is_disposed"}))
    IN  [i2 EXCEPT !.updated_by = user]

(************************* DisposedAssetSerializer *************************)
validate_is_disposed(instance, value) ==
    IF value THEN ~instance.is_disposed ELSE instance.is_disposed

DisposedSerializerValid(instance, data) ==
    "is_disposed" \in DOMAIN data =>
        validate_is_disposed(instance, ToBool(data.is_disposed))

\* DisposedAssetSerializer.update: the instance handed to Asset.save
disposed_update_instance(instance, validated_data, user, now) ==
    IF "is_disposed" \notin DOMAIN validated_data THEN instance
    ELSE IF validated_data.is_disposed
    THEN [instance EXCEPT !.is_disposed = TRUE]
    ELSE [instance EXCEPT !.is_disposed = FALSE, !.disposed_at = NullTime,
                          !.disposed_by = NullUser, !.updated_by = user,
                          !.undisposed_at = now, !.undisposed_by = user]

(***************************** DynamicFilter *******************************)
\* the predicate built from the query parameters, applied to one row
filter_queryset(a, params) ==
    \A name \in DOMAIN params :
        name = "barcode" => a.barcode = params[name]

(************************** AssetViewSet.get_queryset **********************)
ActiveAssets(db, params) ==
    {i \in DOMAIN db : ~db[i].is_disposed /\ filter_queryset(db[i], params)}

\* the ids the view works on: the filtered active rows, cut down to the cached id
\* list when one is cached and non-empty
get_queryset(db, c, params) ==
    IF CacheGet(c, "active_assets") # {}
    THEN ActiveAssets(db, params) \cap CacheGet(c, "active_assets")
    ELSE ActiveAssets(db, params)

\* the cache after get_queryset: the id list is stored on a miss
get_queryset_cache(db, c, params) ==
    IF CacheGet(c, "active_assets") # {} THEN c
    ELSE CacheSet(c, "active_assets", ActiveAssets(db, params))

(********************** DisposedAssetViewSet.get_queryset ******************)
DisposedAssets(db) == {i \in DOMAIN db : db[i].is_disposed}

\* a detail lookup filters the (cached or fresh) queryset again, against the table
disposed_get_queryset(db) == DisposedAssets(db)

\* the cache after get_queryset: on a miss the queryset is stored, kept here by the
\* ids of its rows
disposed_get_queryset_cache(db, c) ==
    IF CacheGet(c, "disposed_assets") # {} THEN c
    ELSE CacheSet(c, "disposed_assets", DisposedAssets(db))

(******************************* handlers **********************************)
Init ==
    /\ assets = [i \in {} |-> NoRow]
    /\ nextId = 1
    /\ clock = 0
    /\ cache = [k \in {} |-> {}]
    /\ last = [op |-> "none", id |-> 0, asked |-> "absent", barcode |-> "absent",
               user |-> NullUser, status |-> 0, conflicts |-> 0, seq |-> 0]
    /\ issued = <<>>
    /\ procs = [p \in {} |-> NoRow]
    /\ refs = Categories
    /\ calc = NoCall

\* time passes between requests
Tick(ticks) ==
    /\ clock' = clock + ticks
    /\ UNCHANGED <<assets, nextId, cache, last, issued, procs, refs, calc>>

\* the 15-minute time-to-live of a cache entry runs out
CacheExpire(k) ==
    /\ k \in DOMAIN cache
    /\ cache' = CacheDelete(cache, k)
    /\ UNCHANGED <<assets, nextId, clock, last, issued, procs, refs, calc>>

\* POST /assets/
CreateAsset(data, user) ==
    LET inst == create_instance([created_by |-> user] @@ ToInternal(data), user)
        ok == /\ AssetSerializerValid(assets, NoRow, data, FALSE, Today)
              /\ save_ok(assets, inst, Today)
    IN  /\ IF ok
           THEN /\ assets' = save_table(assets, inst, Today, nextId)
                /\ nextId' = nextId + 1
                /\ issued' = Append(issued, assets'[nextId].asset_code)
                /\ cache' = CacheDelete(clear_asset_cache(cache, assets'[nextId]),
                                        "active_assets")
                /\ last' = Response("create", nextId, data, user, 201)
           ELSE /\ last' = Response("create", 0, data, user, 400)
                /\ UNCHANGED <<assets, nextId, issued, cache>>
        /\ UNCHANGED <<clock, procs, refs, calc>>

\* PUT /assets/{id}/
UpdateAsset(id, data, user) ==
    LET c1 == get_queryset_cache(assets, cache, NoParams)
        found == id \in get_queryset(assets, cache, NoParams)
        inst == update_instance(assets[id], [updated_by |-> user] @@ ToInternal(data),
                                user, clock)
    IN  /\ IF ~found
           THEN /\ last' = Response("update", id, data, user, 404)
                /\ cache' = c1
                /\ UNCHANGED assets
           ELSE IF /\ AssetSerializerValid(assets, assets[id], data, FALSE, Today)
                   /\ save_ok(assets, inst, Today)
           THEN /\ assets' = save_table(assets, inst, Today, nextId)
                /\ cache' = CacheDelete(clear_asset_cache(c1, assets'[id]),
                                        "active_assets")
                /\ last' = Response("update", id, data, user, 200)
           ELSE /\ last' = Response("update", id, data, user, 400)
                /\ cache' = c1
                /\ UNCHANGED assets
        /\ UNCHANGED <<nextId, clock, issued, procs, refs, calc>>

\* AssetViewSet.handle_disposal
handle_disposal(id, data, user, c1) ==
    LET inst == [assets[id] EXCEPT !.is_disposed = TRUE, !.disposed_at = clock,
                                   !.disposed_by = user]
    IN  IF ~DisposedSerializerValid(assets[id], data)
        THEN /\ last' = Response("partial_update", id, data, user, 400)
             /\ cache' = c1
             /\ UNCHANGED assets
        ELSE IF save_ok(assets, inst, Today)
        THEN /\ assets' = save_table(assets, inst, Today, nextId)
             /\ cache' = CacheDelete(clear_asset_cache(c1, assets'[id]),
                                     "active_assets")
             /\ last' = Response("partial_update", id, data, user, 200)
        ELSE /\ last' = Response("partial_update", id, data, user, 500)
             /\ cache' = c1
             /\ UNCHANGED assets

\* PATCH /assets/{id}/
PartialUpdateAsset(id, data, user) ==
    LET c1 == get_queryset_cache(assets, cache, NoParams)
        found == id \in get_queryset(assets, cache, NoParams)
        is_disposed == IF "is_disposed" \in DOMAIN data
                       THEN Truthy(data.is_disposed)
                       ELSE assets[id].is_disposed
        inst == update_instance(assets[id], [updated_by |-> user] @@ ToInternal(data),
                                user, clock)
    IN  /\ IF ~found
           THEN /\ last' = Response("partial_update", id, data, user, 404)
                /\ cache' = c1
                /\ UNCHANGED assets
           ELSE IF is_disposed
           THEN handle_disposal(id, data, user, c1)
           ELSE IF /\ AssetSerializerValid(assets, assets[id], data, TRUE, Today)
                   /\ save_ok(assets, inst, Today)
           THEN /\ assets' = save_table(assets, inst, Today, nextId)
                /\ cache' = CacheDelete(clear_asset_cache(c1, assets'[id]),
                                        "active_assets")
                /\ last' = Response("partial_update", id, data, user, 200)
           ELSE /\ last' = Response("partial_update", id, data, user, 400)
                /\ cache' = c1
                /\ UNCHANGED assets
        /\ UNCHANGED <<nextId, clock, issued, procs, refs, calc>>

\* DELETE /assets/{id}/
DestroyAsset(id, user) ==
    LET c1 == get_queryset_cache(assets, cache, NoParams)
        found == id \in get_queryset(assets, cache, NoParams)
    IN  /\ IF found
           THEN /\ assets' = delete_table(assets, id)
                /\ cache' = CacheDelete(clear_asset_cache(c1, assets[id]),
                                        "active_assets")
                /\ last' = Response("destroy", id, NoParams, user, 204)
           ELSE /\ last' = Response("destroy", id, NoParams, user, 404)
                /\ cache' = c1
                /\ UNCHANGED assets
        /\ UNCHANGED <<nextId, clock, issued, procs, refs, calc>>

\* GET /assets/?<params>
ListAssets(params, user) ==
    /\ cache' = get_queryset_cache(assets, cache, params)
    /\ last' = Response("list", 0, NoParams, user, 200)
    /\ UNCHANGED <<assets, nextId, clock, issued, procs, refs, calc>>

\* PATCH /disposed_assets/{id}/ (evict TRUE) and PUT /disposed_assets/{id}/, which
\* runs the same serializer without the view's own cache.delete (evict FALSE)
DisposedWrite(op, evict, id, data, user) ==
    LET c1 == disposed_get_queryset_cache(assets, cache)
        found == id \in disposed_get_queryset(assets)
        inst == disposed_update_instance(assets[id], ToInternal(data), user, clock)
    IN  /\ IF ~found
           THEN /\ last' = Response(op, id, data, user, 404)
                /\ cache' = c1
                /\ UNCHANGED assets
           ELSE IF ~DisposedSerializerValid(assets[id], data)
           THEN /\ last' = Response(op, id, data, user, 400)
                /\ cache' = c1
                /\ UNCHANGED assets
           ELSE IF save_ok(assets, inst, Today)
           THEN /\ assets' = save_table(assets, inst, Today, nextId)
                /\ cache' = IF evict
                            THEN CacheDelete(clear_asset_cache(c1, assets'[id]),
                                             "disposed_assets")
                            ELSE clear_asset_cache(c1, assets'[id])
                /\ last' = Response(op, id, data, user, 200)
           ELSE /\ last' = Response(op, id, data, user, 500)
                /\ cache' = c1
                /\ UNCHANGED assets
        /\ UNCHANGED <<nextId, clock, issued, procs, refs, calc>>

DisposedPartialUpdate(id, data, user) ==
    DisposedWrite("disposed_partial_update", TRUE, id, data, user)

DisposedUpdate(id, data, user) ==
    DisposedWrite("disposed_update", FALSE, id, data, user)

\* DELETE /disposed_assets/{id}/
DisposedDestroy(id, user) ==
    LET c1 == disposed_get_queryset_cache(assets, cache)
        found == id \in disposed_get_queryset(assets)
    IN  /\ IF found
           THEN /\ assets' = delete_table(assets, id)
                /\ cache' = CacheDelete(clear_asset_cache(c1, assets[id]),
                                        "disposed_assets")
                /\ last' = Response("disposed_destroy", id, NoParams, user, 204)
           ELSE /\ last' = Response("disposed_destroy", id, NoParams, user, 404)
                /\ cache' = c1
                /\ UNCHANGED assets
        /\ UNCHANGED <<nextId, clock, issued, procs, refs, calc>>

\* POST /import/ with a sheet of one row: ImportAssetsView.post
ImportAssets(row, user) ==
    LET creating == "asset_code" \notin DOMAIN row
        matches == {j \in DOMAIN assets : assets[j].asset_code = row.asset_code}
        id == CHOOSE j \in matches : TRUE
        newInst == create_instance([created_by |-> user] @@ ToInternal(row), user)
        updInst == update_instance(assets[id], [created_by |-> user] @@ ToInternal(row),
                                   user, clock)
        logged == [Response("import", 0, row, user, 200) EXCEPT !.conflicts = 1]
    IN  /\ IF creating
           THEN IF ~AssetSerializerValid(assets, NoRow, row, FALSE, Today)
                THEN /\ last' = logged
                     /\ UNCHANGED <<assets, nextId, issued, cache>>
                ELSE IF save_ok(assets, newInst, Today)
                THEN /\ assets' = save_table(assets, newInst, Today, nextId)
                     /\ nextId' = nextId + 1
                     /\ issued' = Append(issued, assets'[nextId].asset_code)
                     /\ cache' = clear_asset_cache(cache, assets'[nextId])
                     /\ last' = Response("import", nextId, row, user, 200)
                ELSE /\ last' = Response("import", 0, row, user, 400)
                     /\ UNCHANGED <<assets, nextId, issued, cache>>
           ELSE IF matches = {}
           THEN /\ last' = logged
                /\ UNCHANGED <<assets, nextId, issued, cache>>
           ELSE IF ~AssetSerializerValid(assets, assets[id], row, TRUE, Today)
           THEN /\ last' = [logged EXCEPT !.id = id]
                /\ UNCHANGED <<assets, nextId, issued, cache>>
           ELSE IF save_ok(assets, updInst, Today)
           THEN /\ assets' = save_table(assets, updInst, Today, nextId)
                /\ cache' = clear_asset_cache(cache, assets'[id])
                /\ last' = Response("import", id, row, user, 200)
                /\ UNCHANGED <<nextId, issued>>
           ELSE /\ last' = Response("import", id, row, user, 400)
                /\ UNCHANGED <<assets, nextId, issued, cache>>
        /\ UNCHANGED <<clock, procs, refs, calc>>

(************************ the lifecycle specification **********************)
\* One asset, written through every endpoint that can change its disposal state.
\* Every body brings the same barcode, so the first asset created stays the only
\* one, with id 1.
Ids == {1}

UnitPriceCents == 9999

\* a complete, valid body: two units bought today
Body(b) ==
    [barcode |-> b, major_category |-> "ICT", purchase_price |-> UnitPriceCents,
     units |-> 2, date_of_purchase |-> 0, date_placed_in_service |-> 0]

WithDisposed(S, raws) == S \cup {[is_disposed |-> r] @@ d : d \in S, r \in raws}

CreateBodies ==
    WithDisposed({Body("B1"), [price_is_per_unit |-> TRUE] @@ Body("B1")}, {"json_true"})
UpdateBodies == WithDisposed({Body("B1")}, {"json_true", "json_false"})
PatchBodies ==
    {[is_disposed |-> r] : r \in {"json_true", "json_false", "str_false"}} \cup {NoParams}
DisposedBodies == {[is_disposed |-> r] : r \in {"json_true", "json_false"}} \cup {NoParams}
ImportRows ==
    {[asset_code |-> FormatCode(k), is_disposed |-> r] :
        k \in Ids, r \in {"json_true", "json_false"}}

Next ==
    \/ clock < MaxTime /\ Tick(1)
    \/ \E d \in CreateBodies, u \in Users : CreateAsset(d, u)
    \/ \E i \in Ids, d \in UpdateBodies, u \in Users : UpdateAsset(i, d, u)
    \/ \E i \in Ids, d \in PatchBodies, u \in Users : PartialUpdateAsset(i, d, u)
    \/ \E i \in Ids, d \in DisposedBodies, u \in Users : DisposedPartialUpdate(i, d, u)
    \/ \E i \in Ids, d \in DisposedBodies, u \in Users : DisposedUpdate(i, d, u)
    \/ \E r \in ImportRows, u \in Users : ImportAssets(r, u)

Spec == Init /\ [][Next]_vars

(************************** lifecycle properties ***************************)
\* the step answers a request
Answered == last'.seq # last.seq

AsksDispose(r) == r.asked \in {"json_true", "str_true"}
AsksUndispose(r) == r.asked \in {"json_false", "str_false"}

\* an error status, or a row put on the import's conflict log
Rejected(r) == r.status >= 400 \/ r.conflicts > 0

AssetEndpoint == {"update", "partial_update"}
DisposedEndpoint == {"disposed_update", "disposed_partial_update"}

\* C5: a request that asks to dispose an asset that is already disposed is
\* rejected, and leaves is_disposed, disposed_at and disposed_by as they were.
C5_RedisposeRejected ==
    [][\A i \in DOMAIN assets :
          (/\ assets[i].is_disposed
           /\ Answered
           /\ last'.id = i
           /\ AsksDispose(last'))
          => /\ Rejected(last')
             /\ i \in DOMAIN assets'
             /\ assets'[i].is_disposed = assets[i].is_disposed
             /\ assets'[i].disposed_at = assets[i].disposed_at
             /\ assets'[i].disposed_by = assets[i].disposed_by]_vars

\* C6: an update that asks to undispose an asset that is not disposed is rejected,
\* on the asset endpoint (PUT, PATCH) and on the disposed-asset endpoint.
C6_UndisposeActiveRejected ==
    [][\A i \in DOMAIN assets :
          (/\ ~assets[i].is_disposed
           /\ Answered
           /\ last'.id = i
           /\ last'.op \in AssetEndpoint \cup DisposedEndpoint
           /\ AsksUndispose(last'))
          => Rejected(last')]_vars

\* C7: dispose, undispose, dispose, ... is accepted at every step: an undispose of
\* a disposed asset is answered 200, clears the disposal pair and stamps the
\* undisposal pair with the step's time and actor; a dispose of a non-disposed
\* asset is answered 200 and stamps the disposal pair with the step's time and
\* actor; so the two states stay reachable from one another for ever.
C7_DisposeUndisposeCycle ==
    [][\A i \in DOMAIN assets :
          /\ (/\ assets[i].is_disposed
              /\ Answered
              /\ last'.id = i
              /\ last'.op \in DisposedEndpoint
              /\ AsksUndispose(last'))
             => /\ last'.status = 200
                /\ ~assets'[i].is_disposed
                /\ assets'[i].disposed_at = NullTime
                /\ assets'[i].disposed_by = NullUser
                /\ assets'[i].undisposed_at = clock
                /\ assets'[i].undisposed_by = last'.user
          /\ (/\ ~assets[i].is_disposed
              /\ Answered
              /\ last'.id = i
              /\ last'.op = "partial_update"
              /\ AsksDispose(last'))
             => /\ last'.status = 200
                /\ assets'[i].is_disposed
                /\ assets'[i].disposed_at = clock
                /\ assets'[i].disposed_by = last'.user]_vars

\* C8: every accepted transition from active to disposed on the asset endpoint
\* (PATCH through handle_disposal, PUT through AssetSerializer.update) leaves
\* disposed_at at the request's time and disposed_by and updated_by at its actor.
C8_DisposeStamps ==
    [][\A i \in DOMAIN assets :
          (/\ ~assets[i].is_disposed
           /\ Answered
           /\ last'.id = i
           /\ last'.op \in AssetEndpoint
           /\ ~Rejected(last')
           /\ assets'[i].is_disposed)
          => /\ assets'[i].disposed_at = clock
             /\ assets'[i].disposed_by = last'.user
             /\ assets'[i].updated_by = last'.user]_vars

\* C9: the disposal pair and the undisposal pair are never both set: a disposed
\* asset has an empty undisposal pair, a non-disposed asset an empty disposal pair.
C9_PairsExclusive ==
    \A i \in DOMAIN assets :
        /\ assets[i].is_disposed =>
              /\ assets[i].undisposed_at = NullTime
              /\ assets[i].undisposed_by = NullUser
        /\ ~assets[i].is_disposed =>
              /\ assets[i].disposed_at = NullTime
              /\ assets[i].disposed_by = NullUser

(********************* the code-issuing specification **********************)
\* Assets are created, disposed and deleted; each creation brings a barcode of
\* its own, so the only thing that varies is the asset code it is issued.
CodeIds == 1..MaxIdsCodes
ListParams == {NoParams, [barcode |-> "B2"]}

NextCodes ==
    \/ nextId <= MaxIdsCodes /\ CreateAsset(Body(BarcodeSeq[nextId]), "alice")
    \/ \E i \in CodeIds : PartialUpdateAsset(i, [is_disposed |-> "json_true"], "alice")
    \/ \E i \in CodeIds : DestroyAsset(i, "alice")
    \/ \E i \in CodeIds : DisposedDestroy(i, "alice")
    \/ \E q \in ListParams : ListAssets(q, "alice")
    \/ \E k \in {"active_assets", "disposed_assets"} : CacheExpire(k)

SpecCodes == Init /\ [][NextCodes]_vars

\* the number in an asset code: int(asset_code[2:])
CodeNumber(code) == ParseInt(SubSeq(code, 3, Len(code)))

\* C2: asset codes are strictly increasing in creation order, so a code issued
\* once is never issued again, also after the newest asset has been deleted.
C2_CodesNeverReissued ==
    \A j, k \in 1..Len(issued) :
        j < k => CodeNumber(issued[j]) < CodeNumber(issued[k])

\* "AS" and the six decimal digits of k, most significant first
ExpectedCode(k) ==
    <<"A", "S">> \o [j \in 1..6 |-> DigitChars[((k \div Pow(10, 6 - j)) % 10) + 1]]

\* no asset has been deleted so far
NoDeletions == Cardinality(DOMAIN assets) = Len(issued)

\* C4: from the empty register, the creations made while nothing has been deleted
\* receive AS000001, AS000002, ... in order, without a gap.
C4_GapFreeCodes ==
    NoDeletions => \A k \in 1..Len(issued) : issued[k] = ExpectedCode(k)

C4_Witness ==
    /\ NoDeletions
    /\ Len(issued) >= 3
    /\ \E i \in DOMAIN assets : assets[i].asset_code = ExpectedCode(3)

(*********************** the valuation specification ***********************)
\* One asset of any category, method, price and purchase date, saved again and
\* again while the calendar advances by whole periods.
Methods == {"STRAIGHT_LINE", "DECLINING_BALANCE"}
ValPrices == {0, 1, UnitPriceCents, MaxPriceCents}
ValUnits == {1, 3}
\* today at the start, or one period later (in the future until then)
ValDates == {0, DaysPerPeriod}

ValBody(cat, method, price, units, perUnit, dop) ==
    [barcode |-> "B1", major_category |-> cat, depreciation_method |-> method,
     purchase_price |-> price, units |-> units, price_is_per_unit |-> perUnit,
     date_of_purchase |-> dop, date_placed_in_service |-> dop]

ValBodies ==
    {ValBody(c, m, p, u, f, d) :
        c \in Categories, m \in Methods, p \in ValPrices, u \in ValUnits,
        f \in BOOLEAN, d \in ValDates}
    \cup {[economic_life |-> 1] @@ ValBody("Vehicles", m, UnitPriceCents, 1, FALSE, 0) :
            m \in Methods}

ValPatches ==
    {NoParams} \cup {[purchase_price |-> p] : p \in ValPrices}
               \cup {[date_of_purchase |-> d] : d \in ValDates}

\* values a client sends for the two computed fields
ClientValues == [net_book_value |-> 1, accumulated_depreciation |-> 7]

ClientValuedBodies ==
    {ClientValues @@ ValBody("ICT", m, UnitPriceCents, 3, f, 0) :
        m \in Methods, f \in BOOLEAN}

ClientValuedPatches ==
    {ClientValues, [accumulated_depreciation |-> 7],
     ClientValues @@ [purchase_price |-> UnitPriceCents]}

NextValuation ==
    \/ clock < MaxPeriods * TicksPerPeriod /\ Tick(TicksPerPeriod)
    \/ \E d \in ValBodies \cup ClientValuedBodies : CreateAsset(d, "alice")
    \/ \E d \in ValPatches \cup ClientValuedPatches :
            PartialUpdateAsset(1, d, "alice")

SpecValuation == Init /\ [][NextValuation]_vars

\* C1: every persisted asset has 0 <= net_book_value <= purchase_price, the
\* persisted price, under both depreciation methods.
C1_NbvWithinPrice ==
    \A i \in DOMAIN assets :
        /\ 0 <= assets[i].net_book_value
        /\ assets[i].net_book_value <= assets[i].purchase_price

\* a per-unit asset on the declining balance, saved after at least one full year
C1_Witness ==
    \E i \in DOMAIN assets :
        /\ assets[i].price_is_per_unit
        /\ assets[i].depreciation_method = "DECLINING_BALANCE"
        /\ Today - assets[i].date_of_purchase >= DaysPerPeriod
        /\ 0 < assets[i].net_book_value
        /\ assets[i].net_book_value < assets[i].purchase_price

(********************** the interleaved specification **********************)
\* Requests served by concurrent workers.  A write request reads the table
\* (lookup, validation, Asset.save up to super().save()) in one step and writes
\* its row in a later one; other requests run in between.  Nothing in the
\* handlers takes a lock or opens a transaction around the two.
Procs == {1, 2}
ConcIds == 1..MaxIdsConc
ConcBarcodes == {"B1", "B2"}

\* Asset.save reaches super().save() without raising
prepare_ok(db, a, today) ==
    /\ validate_purchase_price(a)
    /\ validate_dates(a, today)
    /\ FitsDecimal(save_instance(db, a, today))

Finish(p) == procs' = [q \in DOMAIN procs \ {p} |-> procs[q]]

\* POST /assets/ up to the INSERT
CreateBegin(p, data, user) ==
    LET inst == create_instance([created_by |-> user] @@ ToInternal(data), user)
    IN  /\ p \notin DOMAIN procs
        /\ IF /\ AssetSerializerValid(assets, NoRow, data, FALSE, Today)
              /\ prepare_ok(assets, inst, Today)
           THEN /\ procs' = (p :> [op |-> "create", id |-> 0, data |-> data,
                                   user |-> user,
                                   row |-> save_instance(assets, inst, Today)]) @@ procs
                /\ UNCHANGED last
           ELSE /\ last' = Response("create", 0, data, user, 400)
                /\ UNCHANGED procs
        /\ UNCHANGED <<assets, nextId, clock, cache, issued, refs, calc>>

\* a variant of the INSERT step that clears the cache before the INSERT, so
\* that a failed INSERT has evicted as well
CreateCommit_evicting_first(p) ==
    /\ p \in DOMAIN procs
    /\ procs[p].op = "create"
    /\ cache' = CacheDelete(clear_asset_cache(cache, procs[p].row), "active_assets")
    /\ IF UniqueOk(assets, procs[p].row)
       THEN /\ assets' = write_row(assets, procs[p].row, nextId)
            /\ nextId' = nextId + 1
            /\ issued' = Append(issued, procs[p].row.asset_code)
            /\ last' = Response("create", nextId, procs[p].data, procs[p].user, 201)
       ELSE /\ last' = Response("create", 0, procs[p].data, procs[p].user, 400)
            /\ UNCHANGED <<assets, nextId, issued>>
    /\ Finish(p)
    /\ UNCHANGED <<clock, refs, calc>>

\* the INSERT of POST /assets/, the signal and the response
CreateCommit(p) ==
    /\ p \in DOMAIN procs
    /\ procs[p].op = "create"
    /\ IF UniqueOk(assets, procs[p].row)
       THEN /\ assets' = write_row(assets, procs[p].row, nextId)
            /\ nextId' = nextId + 1
            /\ issued' = Append(issued, procs[p].row.asset_code)
            /\ cache' = CacheDelete(clear_asset_cache(cache, assets'[nextId]),
                                    "active_assets")
            /\ last' = Response("create", nextId, procs[p].data, procs[p].user, 201)
       ELSE /\ last' = Response("create", 0, procs[p].data, procs[p].user, 400)
            /\ UNCHANGED <<assets, nextId, issued, cache>>
    /\ Finish(p)
    /\ UNCHANGED <<clock, refs, calc>>

\* PUT /assets/{id}/ up to the UPDATE
UpdateBegin(p, id, data, user) ==
    LET c1 == get_queryset_cache(assets, cache, NoParams)
        found == id \in get_queryset(assets, cache, NoParams)
        inst == update_instance(assets[id], [updated_by |-> user] @@ ToInternal(data),
                                user, clock)
    IN  /\ p \notin DOMAIN procs
        /\ cache' = c1
        /\ IF ~found
           THEN /\ last' = Response("update", id, data, user, 404)
                /\ UNCHANGED procs
           ELSE IF /\ AssetSerializerValid(assets, assets[id], data, FALSE, Today)
                   /\ prepare_ok(assets, inst, Today)
           THEN /\ procs' = (p :> [op |-> "update", id |-> id, data |-> data,
                                   user |-> user,
                                   row |-> save_instance(assets, inst, Today)]) @@ procs
                /\ UNCHANGED last
           ELSE /\ last' = Response("update", id, data, user, 400)
                /\ UNCHANGED procs
        /\ UNCHANGED <<assets, nextId, clock, issued, refs, calc>>

\* the UPDATE of PUT /assets/{id}/, the signal and the response
UpdateCommit(p) ==
    /\ p \in DOMAIN procs
    /\ procs[p].op = "update"
    /\ IF UniqueOk(assets, procs[p].row)
       THEN /\ assets' = write_row(assets, procs[p].row, nextId)
            /\ cache' = CacheDelete(clear_asset_cache(cache, assets'[procs[p].id]),
                                    "active_assets")
            /\ last' = Response("update", procs[p].id, procs[p].data, procs[p].user, 200)
       ELSE /\ last' = Response("update", procs[p].id, procs[p].data, procs[p].user, 400)
            /\ UNCHANGED <<assets, cache>>
    /\ Finish(p)
    /\ UNCHANGED <<nextId, clock, issued, refs, calc>>

NextConc ==
    \/ \E p \in Procs, b \in ConcBarcodes : CreateBegin(p, Body(b), "alice")
    \/ \E p \in Procs : CreateCommit(p)
    \/ \E p \in Procs, i \in ConcIds, b \in ConcBarcodes :
            UpdateBegin(p, i, Body(b), "alice")
    \/ \E p \in Procs : UpdateCommit(p)

SpecConc == Init /\ [][NextConc]_vars

\* process p writes its row in this step
Commits(p) == p \in DOMAIN procs /\ p \notin DOMAIN procs'

\* C3: concurrent creations never receive the same asset code: a creation whose
\* barcode is free when it writes completes (201), whatever was created between
\* its read of the last code and its write, and persisted codes stay distinct.
C3_ConcurrentCreatesDistinct ==
    [][\A p \in Procs :
          (/\ Commits(p)
           /\ procs[p].op = "create"
           /\ ~BarcodeTaken(assets, procs[p].row.barcode, 0))
          => /\ last'.status = 201
             /\ \A i, j \in DOMAIN assets' :
                    i # j => assets'[i].asset_code # assets'[j].asset_code]_vars

\* C10: under sequential and interleaved creates and updates no two persisted
\* assets share a barcode; a create or update that brings the barcode of another
\* existing asset fails and changes no persisted asset; a create whose barcode
\* no existing asset has succeeds.
C10_BarcodeUnique ==
    [][/\ \A i, j \in DOMAIN assets' :
              i # j => assets'[i].barcode # assets'[j].barcode
       /\ (/\ Answered
           /\ last'.op \in {"create", "update"}
           /\ last'.barcode # "absent"
           /\ BarcodeTaken(assets, last'.barcode,
                           IF last'.op = "update" THEN last'.id ELSE 0))
          => Rejected(last') /\ assets' = assets
       /\ (/\ Answered
           /\ last'.op = "create"
           /\ ~BarcodeTaken(assets, last'.barcode, 0))
          => last'.status = 201]_vars

\* the barcode part of C10 alone: the table never holds a barcode twice, and a
\* request bringing a taken barcode is refused without a write
BarcodeUniqueKept ==
    [][/\ \A i, j \in DOMAIN assets' :
              i # j => assets'[i].barcode # assets'[j].barcode
       /\ (/\ Answered
           /\ last'.op \in {"create", "update"}
           /\ last'.barcode # "absent"
           /\ BarcodeTaken(assets, last'.barcode,
                           IF last'.op = "update" THEN last'.id ELSE 0))
          => Rejected(last') /\ assets' = assets]_vars

(********************** the validation specification ***********************)
\* Up to two assets, written with bodies that are valid, that break one rule
\* each (negative price, units 0 or negative, a date missing or in the future),
\* or that leave units out; the calendar advances by one period, after which
\* the future date is today.
ValBarcodes == {"B1", "B2"}
FutureDay == DaysPerPeriod

BadBodies(b) ==
    { [Body(b) EXCEPT !.purchase_price = -1],
      [Body(b) EXCEPT !.units = 0],
      [Body(b) EXCEPT !.units = -1],
      Without(Body(b), {"date_of_purchase"}),
      Without(Body(b), {"date_placed_in_service"}),
      [Body(b) EXCEPT !.date_of_purchase = FutureDay],
      [Body(b) EXCEPT !.date_placed_in_service = FutureDay] }

NoUnitsBody(b) == Without(Body(b), {"units"})

WriteBodies ==
    {Body(b) : b \in ValBarcodes} \cup BadBodies("B1") \cup {NoUnitsBody("B2")}

BadPatches ==
    { [purchase_price |-> -1], [units |-> 0], [date_of_purchase |-> FutureDay],
      [date_placed_in_service |-> FutureDay] }

WritePatches == BadPatches \cup {[units |-> 3]}

ValidationRows ==
    BadBodies("B1") \cup {[asset_code |-> FormatCode(1)] @@ d : d \in WritePatches}

ValidationIds == {1, 2}

NextValidation ==
    \/ clock < TicksPerPeriod /\ Tick(TicksPerPeriod)
    \/ \E d \in WriteBodies : CreateAsset(d, "alice")
    \/ \E i \in ValidationIds, d \in WriteBodies : UpdateAsset(i, d, "alice")
    \/ \E i \in ValidationIds, d \in WritePatches : PartialUpdateAsset(i, d, "alice")
    \/ \E r \in ValidationRows : ImportAssets(r, "alice")

SpecValidation == Init /\ [][NextValidation]_vars

WriteOps == {"create", "update", "partial_update", "import"}

\* C11: a create or update that is rejected (negative price, a date missing or in
\* the future, units <= 0) persists nothing: the table of assets, with every field
\* of every row, and the code the next creation would be issued are as before.
C11_RejectedPersistsNothing ==
    [][(/\ Answered
        /\ last'.op \in WriteOps
        /\ Rejected(last'))
       => /\ assets' = assets
          /\ issued' = issued
          /\ generate_asset_code(assets') = generate_asset_code(assets)]_vars

\* a PATCH of an existing asset was refused; the patches of this specification
\* can only be refused for a negative price, units 0 or a future date
C11_Witness ==
    /\ last.op = "partial_update"
    /\ last.status = 400
    /\ last.id \in DOMAIN assets

\* C12: every persisted asset has purchase_price >= 0, units >= 1 and purchase and
\* in-service dates no later than the day it was saved (hence no later than
\* today), also when the request that wrote it left units out.
C12_PersistedFieldsValid ==
    \A i \in DOMAIN assets :
        /\ assets[i].purchase_price >= 0
        /\ assets[i].units >= 1
        /\ assets[i].date_of_purchase <= Today
        /\ assets[i].date_placed_in_service <= Today

(*********************** the valuation functions ****************************)
\* calculate_depreciation and calculate_accumulated_depreciation called on an
\* Asset instance whose purchase date is before, on or after date.today().
EvalPrices == {1, UnitPriceCents, MaxPriceCents}
EvalLives == {1, 3, 5, 8}
EvalDays == {0, 1, DaysPerPeriod}

NoTables ==
    /\ assets = [i \in {} |-> NoRow]
    /\ nextId = 1
    /\ clock = 0
    /\ cache = [k \in {} |-> {}]
    /\ last = [op |-> "none", id |-> 0, asked |-> "absent", barcode |-> "absent",
               user |-> NullUser, status |-> 0, conflicts |-> 0, seq |-> 0]
    /\ issued = <<>>
    /\ procs = [p \in {} |-> NoRow]
    /\ refs = Categories

InitEval ==
    /\ NoTables
    /\ \E method \in Methods, P \in EvalPrices, L \in EvalLives,
          dop \in EvalDays, today \in EvalDays :
          calc = [fn |-> "valuation", done |-> FALSE, today |-> today,
                  asset |-> [purchase_price |-> P, economic_life |-> L,
                             depreciation_method |-> method,
                             date_of_purchase |-> dop],
                  net_book_value |-> NullTime,
                  accumulated_depreciation |-> NullTime]

Evaluate ==
    /\ calc.fn = "valuation"
    /\ ~calc.done
    /\ calc' = [calc EXCEPT
                  !.done = TRUE,
                  !.net_book_value = calculate_depreciation(calc.asset, calc.today),
                  !.accumulated_depreciation =
                      calculate_accumulated_depreciation(calc.asset, calc.today)]
    /\ UNCHANGED <<assets, nextId, clock, cache, last, issued, procs, refs>>

NextEval == Evaluate

SpecEval == InitEval /\ [][NextEval]_vars

\* C13: for both methods and every price and economic life above zero, an
\* evaluation on or before the purchase date (years_in_use <= 0) gives an
\* accumulated depreciation of 0 and a net book value equal to the full price.
C13_NotYetInUse ==
    (/\ calc.fn = "valuation"
     /\ calc.done
     /\ calc.today <= calc.asset.date_of_purchase)
    => /\ calc.accumulated_depreciation = 0
       /\ calc.net_book_value = calc.asset.purchase_price

(****************** what a save persists of the valuation *******************)
\* C14: a created asset's persisted economic_life is the value the request
\* supplied when it supplied one, and otherwise the value of the category
\* table (Furniture 8, ICT 3, any other 5).
C14_SuppliedEconomicLifeKept ==
    [][\A d \in ValBodies :
          (CreateAsset(d, "alice") /\ last'.status = 201)
          => assets'[last'.id].economic_life =
                IF "economic_life" \in DOMAIN d THEN d.economic_life
                ELSE set_economic_life(d)]_vars

Accepted == Answered /\ last'.status \in {200, 201} /\ last'.conflicts = 0

\* C16: after every successful create or update the persisted net_book_value
\* and accumulated_depreciation are the valuation of the persisted price,
\* economic life, purchase date and method on the day of the save, whatever
\* values the request carried for the two fields.
C16_ValuationComputedAtSave ==
    [][(Accepted /\ last'.op \in WriteOps)
       => LET a == assets'[last'.id]
          IN  /\ a.net_book_value = calculate_depreciation(a, Today')
              /\ a.accumulated_depreciation =
                     calculate_accumulated_depreciation(a, Today')]_vars

\* a declining-balance asset created with client values for both fields and
\* saved again a full year later: its persisted accumulated depreciation is
\* neither 0 nor the client's value
C16_Witness ==
    /\ last.op = "partial_update"
    /\ last.status = 200
    /\ 1 \in DOMAIN assets
    /\ assets[1].units = 3
    /\ assets[1].depreciation_method = "DECLINING_BALANCE"
    /\ assets[1].accumulated_depreciation > ClientValues.accumulated_depreciation
    /\ assets[1].net_book_value > ClientValues.net_book_value

(************************ per-unit pricing over saves ***********************)
\* C15: an asset created with price_is_per_unit from a unit price p and u units
\* has purchase_price p * u after the creation and after every later save that
\* supplies no new price or units (field updates, dispose, undispose).  Every
\* body of the lifecycle specification that carries a price carries
\* UnitPriceCents and 2 units.
C15_PerUnitPriceStable ==
    \A i \in DOMAIN assets :
        assets[i].price_is_per_unit
        => assets[i].purchase_price = UnitPriceCents * assets[i].units

(******************* reference tables, summary and cache ********************)
\* the reference models whose writes send post_save / post_delete
RefKinds == {"Department", "Supplier", "Location", "MajorCategory",
             "MinorCategory", "Employee"}

\* on_delete=CASCADE: the assets deleted together with a MajorCategory row
Cascade(db, kind, name) ==
    IF kind = "MajorCategory"
    THEN {i \in DOMAIN db : db[i].major_category = name}
    ELSE {}

\* post_delete of Asset, sent for every asset a cascading delete removes
RECURSIVE clear_each(_, _, _)
clear_each(c, db, ids) ==
    IF ids = {} THEN c
    ELSE LET i == CHOOSE j \in ids : TRUE
         IN  clear_each(clear_asset_cache(c, db[i]), db, ids \ {i})

\* POST /<reference>/ : of the reference tables only MajorCategory is kept (its
\* names); a row of another kind is written without a trace in the model
CreateReference(kind, name, user) ==
    /\ IF kind = "MajorCategory" /\ name \in refs
       THEN /\ last' = Response("reference_create", 0, NoParams, user, 400)
            /\ UNCHANGED <<refs, cache>>
       ELSE /\ refs' = IF kind = "MajorCategory" THEN refs \cup {name} ELSE refs
            /\ cache' = clear_asset_summary_cache(cache)
            /\ last' = Response("reference_create", 0, NoParams, user, 201)
    /\ UNCHANGED <<assets, nextId, clock, issued, procs, calc>>

\* PUT /<reference>/{id}/ of an existing row, its name kept
UpdateReference(kind, name, user) ==
    /\ IF kind = "MajorCategory" /\ name \notin refs
       THEN /\ last' = Response("reference_update", 0, NoParams, user, 404)
            /\ UNCHANGED cache
       ELSE /\ cache' = clear_asset_summary_cache(cache)
            /\ last' = Response("reference_update", 0, NoParams, user, 200)
    /\ UNCHANGED <<assets, nextId, clock, issued, procs, refs, calc>>

\* DELETE /<reference>/{id}/ of an existing row: the collector deletes the
\* assets that cascade from it, sending post_delete for each, then the row
DestroyReference(kind, name, user) ==
    /\ IF kind = "MajorCategory" /\ name \notin refs
       THEN /\ last' = Response("reference_destroy", 0, NoParams, user, 404)
            /\ UNCHANGED <<assets, refs, cache>>
       ELSE /\ assets' = [i \in DOMAIN assets \ Cascade(assets, kind, name) |->
                            assets[i]]
            /\ refs' = IF kind = "MajorCategory" THEN refs \ {name} ELSE refs
            /\ cache' = clear_asset_summary_cache(
                            clear_each(cache, assets, Cascade(assets, kind, name)))
            /\ last' = Response("reference_destroy", 0, NoParams, user, 204)
    /\ UNCHANGED <<nextId, clock, issued, procs, calc>>

\* what the summary reports, as far as the model keeps it
asset_summary(db, categories) ==
    [total_assets |-> Cardinality({i \in DOMAIN db : ~db[i].is_disposed}),
     total_major_categories |-> Cardinality(categories)]

\* GET /asset-summary/ : AssetSummaryView.get
AssetSummary(user) ==
    /\ cache' = IF "asset_summary_cache" \in DOMAIN cache THEN cache
                ELSE CacheSet(cache, "asset_summary_cache",
                              asset_summary(assets, refs))
    /\ last' = Response("summary", 0, NoParams, user, 200)
    /\ UNCHANGED <<assets, nextId, clock, issued, procs, refs, calc>>

\* GET /disposed_assets/
ListDisposed(user) ==
    /\ cache' = disposed_get_queryset_cache(assets, cache)
    /\ last' = Response("disposed_list", 0, NoParams, user, 200)
    /\ UNCHANGED <<assets, nextId, clock, issued, procs, refs, calc>>

(************************* the cache specification **************************)
\* Up to MaxIdsCache assets of category ICT are created (active or disposed),
\* written through both endpoints, imported over and deleted, while the three
\* cached views are read and the reference tables are written.
MaxIdsCache == 1
CacheIds == 1..MaxIdsCache
CacheNames == {"ICT"}

CacheBodies(b) == {Body(b), [is_disposed |-> "json_true"] @@ Body(b)}

CachePatches == {[is_disposed |-> r] : r \in {"json_true", "json_false"}}
                    \cup {NoParams}

\* rows that update the first asset, and rows that create one: the second is
\* refused for its units
CacheUpdateRows == {[asset_code |-> FormatCode(1)] @@ d : d \in CachePatches}
CacheCreateRows == {Body("B6"), [Body("B6") EXCEPT !.units = 0]}

NextCache ==
    \/ /\ nextId <= MaxIdsCache
       /\ \E d \in CacheBodies(BarcodeSeq[nextId]) : CreateAsset(d, "alice")
    \/ \E i \in CacheIds : UpdateAsset(i, Body(BarcodeSeq[i]), "alice")
    \/ \E i \in CacheIds, d \in CachePatches : PartialUpdateAsset(i, d, "alice")
    \/ \E i \in CacheIds : DestroyAsset(i, "alice")
    \/ \E i \in CacheIds, d \in CachePatches : DisposedPartialUpdate(i, d, "alice")
    \/ \E i \in CacheIds, d \in CachePatches : DisposedUpdate(i, d, "alice")
    \/ \E i \in CacheIds : DisposedDestroy(i, "alice")
    \/ \E r \in CacheUpdateRows : ImportAssets(r, "alice")
    \/ nextId <= MaxIdsCache /\ \E r \in CacheCreateRows : ImportAssets(r, "alice")
    \/ ListAssets(NoParams, "alice")
    \/ ListDisposed("alice")
    \/ AssetSummary("alice")
    \/ \E k \in RefKinds, n \in CacheNames : CreateReference(k, n, "alice")
    \/ \E k \in RefKinds, n \in CacheNames : UpdateReference(k, n, "alice")
    \/ \E k \in RefKinds, n \in CacheNames : DestroyReference(k, n, "alice")

SpecCache == Init /\ [][NextCache]_vars

AssetWriteOps ==
    WriteOps \cup {"destroy", "disposed_update", "disposed_partial_update",
                   "disposed_destroy"}
DeleteOps == {"destroy", "disposed_destroy"}

Succeeded == Answered /\ last'.status \in {200, 201, 204} /\ last'.conflicts = 0

\* the asset a successful write has written: the row as saved, or the row that
\* was deleted
Written == IF last'.op \in DeleteOps THEN assets[last'.id] ELSE assets'[last'.id]

\* a cache entry: the value under the key, or nothing
Entry(c, k) == IF k \in DOMAIN c THEN <<c[k]>> ELSE <<>>

\* C17: immediately after a successful create, update or delete of an asset the
\* cache holds no active_assets and no asset_summary_cache entry, and no
\* disposed_assets entry either when the written asset is disposed.
C17_AssetWriteClearsCache ==
    [][(Succeeded /\ last'.op \in AssetWriteOps)
       => /\ "active_assets" \notin DOMAIN cache'
          /\ "asset_summary_cache" \notin DOMAIN cache'
          /\ (Written.is_disposed => "disposed_assets" \notin DOMAIN cache')]_vars

\* an asset has just been disposed through PATCH /assets/1/, and the cache
\* holds none of the three entries
C17_Witness ==
    /\ last.op = "partial_update"
    /\ last.status = 200
    /\ last.asked = "json_true"
    /\ 1 \in DOMAIN assets
    /\ assets[1].is_disposed
    /\ DOMAIN cache = {}

ReferenceOps == {"reference_create", "reference_update", "reference_destroy"}

C19_ImportClearsCache ==
    [][(Answered /\ last'.op = "import")
       => DOMAIN cache' \cap {"active_assets", "disposed_assets",
                              "asset_summary_cache"} = {}]_vars

(********************* DynamicFilter on raw query strings *******************)
\* A query-parameter value is a string.  It is kept as the sequence of its
\* parts between "__" separators, each part as the sequence of its pieces
\* between commas: "1,9__range" is << <<"1", "9">>, <<"range">> >>.
NumericAtoms == {"1", "5", "9"}

\* the part as one string: a single piece, or a text with a comma in it
PartText(part) == IF Len(part) = 1 THEN part[1] ELSE "a,b"

\* int(x) / Decimal(x) accept the text
IsNumber(part) == Len(part) = 1 /\ part[1] \in NumericAtoms

Str(parts) == [type |-> "str", parts |-> parts]
IdList(ids) == [type |-> "list", ids |-> ids]
None == [type |-> "none"]

Q(field, lookup, value) == [kind |-> "Q", field |-> field, lookup |-> lookup,
                            value |-> value]
EmptyQ == [kind |-> "Q()"]
Raise(e) == [kind |-> "raise", error |-> e]

\* get_field_from_name: the allow-list, and None ("") for any other name
FieldMap ==
    {"asset_code", "barcode", "rfid", "description", "serial_number",
     "model_number", "asset_type", "major_category", "minor_category",
     "location", "department", "employee", "supplier", "economic_life",
     "purchase_price", "net_book_value", "revalued_amount", "units",
     "year_of_purchase", "date_placed_in_service", "condition", "status",
     "depreciation_method", "created_at", "updated_at", "disposed_at",
     "is_disposed"}

get_field_from_name(name) == IF name \in FieldMap THEN name ELSE ""

ForeignKeys == {"major_category", "minor_category", "department", "location",
                "supplier", "employee"}

Comparisons == {"exact", "lt", "lte", "gt", "gte"}

get_allowed_lookups(field) ==
    IF field \in {"asset_code", "barcode", "rfid", "serial_number", "model_number"}
    THEN {"exact", "icontains", "iexact"}
    ELSE IF field = "description" THEN {"icontains"}
    ELSE IF field \in {"economic_life", "units"} THEN Comparisons
    ELSE IF field \in {"purchase_price", "net_book_value", "revalued_amount",
                       "year_of_purchase", "date_placed_in_service",
                       "created_at", "updated_at", "disposed_at"}
    THEN Comparisons \cup {"range"}
    ELSE {"exact"}

OPERATOR_MAP(lookup) ==
    CASE lookup = "equals" -> "exact"
      [] lookup = "not equals" -> "exclude"
      [] lookup = "contains" -> "icontains"
      [] lookup = "does not contain" -> "exclude__icontains"
      [] lookup = "less than" -> "lt"
      [] lookup = "greater than" -> "gt"
      [] lookup = "less than or equal to" -> "lte"
      [] lookup = "greater than or equal to" -> "gte"
      [] lookup = "within range" -> "range"
      [] lookup = "outside range" -> "exclude__range"
      [] OTHER -> lookup

\* the whole value as one string: a single piece, or a text that is no name
RawText(parts) == IF Len(parts) = 1 THEN PartText(parts[1]) ELSE "a__b"

\* str.lower on the texts of the model
Lower(t) == CASE t = "Ann" -> "ann" [] t = "Lee" -> "lee" [] OTHER -> t

\* icontains on the texts of the model: no text is a proper part of another
icontains(text, sub) == Lower(text) = Lower(sub)

\* value.split(): the words of the value between white space
Tokens(text) ==
    CASE text = "" -> <<>>
      [] text = "Zzz lee" -> <<"Zzz", "lee">>
      [] OTHER -> <<text>>

\* Employee.objects.filter(employee_filter): an empty Q() when the value has no
\* word, and then every employee
employees_named(employees, text) ==
    IF Tokens(text) = <<>> THEN {e.id : e \in employees}
    ELSE {e.id : e \in {x \in employees :
                          \E k \in 1..Len(Tokens(text)) :
                              \/ icontains(x.first_name, Tokens(text)[k])
                              \/ icontains(x.middle_name, Tokens(text)[k])
                              \/ icontains(x.last_name, Tokens(text)[k])}}

\* resolve_foreign_key: the ids of the employees whose names contain a word of
\* the value, or the one row with that name (kept by its name), or None.
\* tables: the names in each reference table, and the Employee rows
resolve_foreign_key(field, parts, tables) ==
    IF field = "employee"
    THEN IdList(employees_named(tables.employee, RawText(parts)))
    ELSE IF RawText(parts) \in tables[field]
    THEN IdList({RawText(parts)})
    ELSE None

\* _apply_filter: value.split("__") unpacked into (value, lookup), the range
\* bounds converted inside try/except ValueError
apply_filter(field, value, allowed_lookups) ==
    IF field = "employee" THEN Q(field, "in", value)
    ELSE IF value.type # "str"
    THEN IF "exact" \in allowed_lookups THEN Q(field, "exact", value) ELSE EmptyQ
    ELSE IF Len(value.parts) > 2 THEN Raise("ValueError")
    ELSE LET v == value.parts[1]
             lookup == IF Len(value.parts) = 2
                       THEN OPERATOR_MAP(PartText(value.parts[2])) ELSE "exact"
         IN  IF lookup \notin allowed_lookups THEN EmptyQ
             ELSE IF lookup # "range" THEN Q(field, lookup, Str(<<v>>))
             ELSE IF \E k \in 1..Len(v) : v[k] \notin NumericAtoms THEN EmptyQ
             ELSE IF Len(v) < 2 THEN Raise("IndexError")
             ELSE Q(field, "range", <<v[1], v[2]>>)

\* the columns of Asset among the allow-list, by the type that prepares a value
IntegerColumns == {"economic_life", "units"}
DecimalColumns == {"purchase_price", "net_book_value", "revalued_amount"}
NoColumn == {"year_of_purchase"}

\* queryset.filter(q): the field is resolved and the value prepared for one
\* condition; "" when nothing is raised
filter_error(q) ==
    IF q.kind # "Q" THEN ""
    ELSE IF q.field \in NoColumn THEN "FieldError"
    ELSE IF q.lookup \in {"range", "in"} THEN ""
    ELSE IF q.value.type # "str" THEN ""
    ELSE IF q.field \in IntegerColumns /\ ~IsNumber(q.value.parts[1])
    THEN "ValueError"
    ELSE IF q.field \in DecimalColumns /\ ~IsNumber(q.value.parts[1])
    THEN "ValidationError"
    ELSE ""

\* the condition one query parameter contributes
condition(name, parts, tables) ==
    LET field == get_field_from_name(name)
        value == IF field \in ForeignKeys
                 THEN resolve_foreign_key(field, parts, tables)
                 ELSE Str(parts)
    IN  IF name = "match_all" \/ field = "" THEN EmptyQ
        ELSE apply_filter(field, value, get_allowed_lookups(field))

\* DynamicFilter.filter_queryset on request.GET: the exception that leaves it,
\* "" when it returns a queryset
dynamic_filter(params, tables) ==
    LET q(n) == condition(n, params[n], tables)
        raised == {n \in DOMAIN params : q(n).kind = "raise"}
        failing == {n \in DOMAIN params : filter_error(q(n)) # ""}
    IN  IF raised # {} THEN q(CHOOSE n \in raised : TRUE).error
        ELSE IF failing # {} THEN filter_error(q(CHOOSE n \in failing : TRUE))
        ELSE ""

\* int(x) / Decimal(x) of a numeric text, a price in cents
NumVal(atom) == CASE atom = "1" -> 1 [] atom = "5" -> 5 [] atom = "9" -> 9
Amount(field, atom) ==
    IF field \in DecimalColumns THEN 100 * NumVal(atom) ELSE NumVal(atom)

Compare(lookup, x, y) ==
    CASE lookup = "exact" -> x = y
      [] lookup = "lt" -> x < y
      [] lookup = "lte" -> x <= y
      [] lookup = "gt" -> x > y
      [] lookup = "gte" -> x >= y

\* the only foreign key of Asset with null=True; 0 stands for NULL
NullableColumns == {"employee"}

\* a comparison that takes >= for >
matches_strictly(a, q) ==
    IF q.kind # "Q" THEN TRUE
    ELSE IF q.lookup = "in" THEN a[q.field] \in q.value.ids
    ELSE IF q.lookup = "range"
    THEN /\ Amount(q.field, q.value[1]) <= a[q.field]
         /\ a[q.field] <= Amount(q.field, q.value[2])
    ELSE IF q.value.type = "none"
    THEN q.field \in NullableColumns /\ a[q.field] = 0
    ELSE IF q.value.type = "list" THEN a[q.field] \in q.value.ids
    ELSE IF q.field \in IntegerColumns \cup DecimalColumns
    THEN Compare(IF q.lookup = "gte" THEN "gt" ELSE q.lookup, a[q.field],
                 Amount(q.field, q.value.parts[1][1]))
    ELSE IF q.lookup = "exact" THEN a[q.field] = PartText(q.value.parts[1])
    ELSE icontains(a[q.field], PartText(q.value.parts[1]))

\* the row satisfies the condition, as the database evaluates it: an exact
\* comparison with None is IS NULL, a one-id list has been unwrapped to its id
matches(a, q) ==
    IF q.kind # "Q" THEN TRUE
    ELSE IF q.lookup = "in" THEN a[q.field] \in q.value.ids
    ELSE IF q.lookup = "range"
    THEN /\ Amount(q.field, q.value[1]) <= a[q.field]
         /\ a[q.field] <= Amount(q.field, q.value[2])
    ELSE IF q.value.type = "none"
    THEN q.field \in NullableColumns /\ a[q.field] = 0
    ELSE IF q.value.type = "list" THEN a[q.field] \in q.value.ids
    ELSE IF q.field \in IntegerColumns \cup DecimalColumns
    THEN Compare(q.lookup, a[q.field], Amount(q.field, q.value.parts[1][1]))
    ELSE IF q.lookup = "exact" THEN a[q.field] = PartText(q.value.parts[1])
    ELSE icontains(a[q.field], PartText(q.value.parts[1]))

\* a disjunction with the empty Q() that is true of every row
or_empty_q_all(names) == {}

\* q_object | Q(): Q combined with an empty Q is a copy of itself.  q_object is
\* kept as the names of the parameters whose conditions it conjoins
or_empty_q(names) == names

\* request.GET.get('match_all', 'true').lower() == 'true'
match_all(params) ==
    \/ "match_all" \notin DOMAIN params
    \/ Lower(RawText(params.match_all)) = "true"

\* the rows of the queryset DynamicFilter.filter_queryset returns
filter_rows(db, params, tables) ==
    LET names == IF match_all(params) THEN DOMAIN params
                 ELSE or_empty_q(DOMAIN params)
    IN  {a.id : a \in {x \in db :
                          \A n \in names : matches(x, condition(n, params[n], tables))}}

(************************* the filter specification *************************)
FilterNames == {"barcode", "description", "units", "purchase_price",
                "major_category", "supplier", "employee", "year_of_purchase",
                "purchase_price__gte", "match_all", "page"}

FilterValues ==
    { << <<"5">> >>,                          \* 5
      << <<"abc">> >>,                        \* abc
      << <<"ICT">> >>,                        \* ICT
      << <<"">> >>,                           \* the empty value
      << <<"Zzz lee">> >>,                    \* Zzz lee
      << <<"true">> >>,                       \* true
      << <<"false">> >>,                      \* false
      << <<"5">>, <<"gt">> >>,                \* 5__gt
      << <<"5">>, <<"gte">> >>,               \* 5__gte
      << <<"5">>, <<"bogus">> >>,             \* 5__bogus
      << <<"1", "5">>, <<"range">> >>,        \* 1,5__range
      << <<"1", "5">>, <<"within range">> >>, \* 1,5__within range
      << <<"5">>, <<"range">> >>,             \* 5__range
      << <<"1", "5", "9">>, <<"range">> >>,   \* 1,5,9__range
      << <<"a", "b">>, <<"range">> >>,        \* a,b__range
      << <<"1">>, <<"2">>, <<"range">> >> }   \* 1__2__range

\* request.GET with one or two parameters
FilterRequests ==
    UNION {[S -> FilterValues] : S \in {T \in SUBSET FilterNames :
                                           Cardinality(T) \in {1, 2}}}

\* the reference rows: category names as in the register, one supplier, one
\* employee
FilterTables(categories) ==
    [major_category |-> categories, minor_category |-> {"Laptops"},
     department |-> {"Finance"}, location |-> {"HQ"}, supplier |-> {"Acme"},
     employee |-> {[id |-> 1, first_name |-> "Ann", middle_name |-> "",
                    last_name |-> "Lee"]}]

\* the columns of an asset that a filter of the model can read; the first asset
\* is assigned to the employee
FilterRow(id, price, category, employee) ==
    [id |-> id, barcode |-> "5", description |-> "abc", units |-> id,
     purchase_price |-> price, major_category |-> category, supplier |-> "Acme",
     employee |-> employee]

FilterRows == {FilterRow(1, 100, "ICT", 1), FilterRow(5, 500, "Furniture", 0),
               FilterRow(9, 900, "ICT", 0)}

InitFilter ==
    /\ NoTables
    /\ \E params \in FilterRequests, db \in SUBSET FilterRows :
          calc = [fn |-> "filter", done |-> FALSE, params |-> params,
                  db |-> db, raised |-> "", rows |-> {}]

ApplyFilter ==
    /\ calc.fn = "filter"
    /\ ~calc.done
    /\ calc' = [calc EXCEPT
                  !.done = TRUE,
                  !.raised = dynamic_filter(calc.params, FilterTables(refs)),
                  !.rows = IF dynamic_filter(calc.params, FilterTables(refs)) = ""
                           THEN filter_rows(calc.db, calc.params, FilterTables(refs))
                           ELSE {}]
    /\ UNCHANGED <<assets, nextId, clock, cache, last, issued, procs, refs>>

NextFilter == ApplyFilter

SpecFilter == InitFilter /\ [][NextFilter]_vars

\* C20: for every mapping of query-parameter names to string values (several
\* "__" separators, a range with a single bound, a non-numeric range, every
\* name of the allow-list) the filter returns a result set and raises nothing.
C20_FilterNeverRaises ==
    (calc.fn = "filter" /\ calc.done) => calc.raised = ""

FilterDone == calc.fn = "filter" /\ calc.done

\* the request has this one parameter
OnlyParam(name) == DOMAIN calc.params = {name}

\* no row of the table bears the name; for an employee, no word of the value is
\* part of a first, middle or last name
Unresolved(field, parts) ==
    IF field = "employee"
    THEN \A k \in 1..Len(Tokens(RawText(parts))) :
            \A e \in FilterTables(refs).employee :
                /\ ~icontains(e.first_name, Tokens(RawText(parts))[k])
                /\ ~icontains(e.middle_name, Tokens(RawText(parts))[k])
                /\ ~icontains(e.last_name, Tokens(RawText(parts))[k])
    ELSE RawText(parts) \notin FilterTables(refs)[field]

\* C21: a filter on major_category, minor_category, department, location or
\* supplier with a name that no referenced row bears, or on employee with a name
\* none of whose words matches an employee, returns the empty set and raises
\* nothing.
C21_UnresolvedNameMatchesNothing ==
    \A f \in ForeignKeys :
        (FilterDone /\ OnlyParam(f) /\ Unresolved(f, calc.params[f]))
        => calc.raised = "" /\ calc.rows = {}

AtLeast(db, cents) == {a.id : a \in {x \in db : x.purchase_price >= cents}}

MalformedRange(parts) ==
    /\ Len(parts) = 2
    /\ OPERATOR_MAP(PartText(parts[2])) = "range"
    /\ \/ Len(parts[1]) # 2
       \/ \E k \in 1..Len(parts[1]) : parts[1][k] \notin NumericAtoms

\* C23: on a field that allows range, a malformed range value (bounds that are
\* not numbers, or not exactly two bounds) gives a predicate that matches no
\* asset, and no error.
C23_MalformedRangeMatchesNothing ==
    (/\ FilterDone
     /\ OnlyParam("purchase_price")
     /\ MalformedRange(calc.params.purchase_price))
    => calc.raised = "" /\ calc.rows = {}

\* the request with match_all=true in place of its match_all
WithMatchAll(params) == [n \in DOMAIN params |->
                            IF n = "match_all" THEN << <<"true">> >> ELSE params[n]]

MaxRequests == 6

\* the <pk> texts of the detail URLs /api/assets/<pk>/ that are requested; the
\* router accepts any text without "/" and ".", the middleware any digits
PathIds == {"1", "01", "2", "3", "4", "5", "6"}

\* the primary key a <pk> text selects: the column converts it with int()
asset_pk(text) ==
    CASE text \in {"1", "01"} -> 1
      [] text = "2" -> 2
      [] text = "3" -> 3
      [] text = "4" -> 4
      [] text = "5" -> 5
      [] text = "6" -> 6

\* f"asset:{current_asset_id}"
asset_activity(text) == <<"asset", text>>

\* '|'.join(list): a text, held as the parts that its separators delimit; the
\* empty list joins to the empty text, which has one empty part
join(list) == IF list = <<>> THEN <<"">> ELSE list

\* [activity for activity in text.split('|') if activity]
get_recent_activity(text) ==
    LET nonempty(part) == part # "" IN SelectSeq(text, nonempty)

update_recent_activity(recent_activity, activity) ==
    LET other(entry) == entry # activity
        updated == <<activity>> \o SelectSeq(recent_activity, other)
    IN  SubSeq(updated, 1, IF Len(updated) < 5 THEN Len(updated) ELSE 5)

InitActivity ==
    /\ NoTables
    /\ calc = [fn |-> "activity", cookie |-> <<"">>, requests |-> <<>>]

\* GET /api/assets/<pk>/ with the cookie that the last response set
AssetDetail(text, authenticated) ==
    /\ calc.fn = "activity"
    /\ Len(calc.requests) < MaxRequests
    /\ calc' = IF authenticated
               THEN [calc EXCEPT
                       !.cookie = join(update_recent_activity(
                                           get_recent_activity(calc.cookie),
                                           asset_activity(text))),
                       !.requests = Append(calc.requests, text)]
               ELSE calc
    /\ UNCHANGED <<assets, nextId, clock, cache, last, issued, procs, refs>>

NextActivity == \E text \in PathIds, authenticated \in BOOLEAN : AssetDetail(text, authenticated)

SpecActivity == InitActivity /\ [][NextActivity]_vars

\* the assets of the list that the cookie holds, first entry first
ActivityAssets ==
    LET list == get_recent_activity(calc.cookie)
    IN  [i \in 1..Len(list) |-> asset_pk(list[i][2])]

\* the position of the latest request for an asset
LatestRequest(pk) ==
    CHOOSE i \in 1..Len(calc.requests) :
        /\ asset_pk(calc.requests[i]) = pk
        /\ \A j \in (i+1)..Len(calc.requests) : asset_pk(calc.requests[j]) # pk

\* C24: after any sequence of asset-detail requests by an authenticated user
\* the recent_activity list has at most 5 entries, holds no asset more than
\* once, starts with the asset of the latest request, and lists the others
\* most recent first.
C24_RecentActivityList ==
    (calc.fn = "activity" /\ calc.requests # <<>>) =>
        /\ Len(ActivityAssets) <= 5
        /\ \A i, j \in 1..Len(ActivityAssets) :
              i # j => ActivityAssets[i] # ActivityAssets[j]
        /\ ActivityAssets[1] = asset_pk(calc.requests[Len(calc.requests)])
        /\ \A i, j \in 1..Len(ActivityAssets) :
              i < j => LatestRequest(ActivityAssets[i]) > LatestRequest(ActivityAssets[j])

\* the same with entries told apart by the <pk> text of the URL, as the
\* middleware tells them apart, rather than by the asset that the text selects
ActivityTexts ==
    LET list == get_recent_activity(calc.cookie)
    IN  [i \in 1..Len(list) |-> list[i][2]]

LatestRequestText(text) ==
    CHOOSE i \in 1..Len(calc.requests) :
        /\ calc.requests[i] = text
        /\ \A j \in (i+1)..Len(calc.requests) : calc.requests[j] # text

C24_RecentActivityByText ==
    (calc.fn = "activity" /\ calc.requests # <<>>) =>
        /\ Len(ActivityTexts) <= 5
        /\ \A i, j \in 1..Len(ActivityTexts) :
              i # j => ActivityTexts[i] # ActivityTexts[j]
        /\ ActivityTexts[1] = calc.requests[Len(calc.requests)]
        /\ \A i, j \in 1..Len(ActivityTexts) :
              i < j => LatestRequestText(ActivityTexts[i]) > LatestRequestText(ActivityTexts[j])

(************************ the eviction specification ************************)
\* Writes of assets and of reference entities that succeed, that are refused
\* at validation (an import row without units, a patch of an asset that is
\* not found) or that fail at the storage: a creation whose INSERT is a step
\* of its own fails when another creation took its barcode in between. The
\* three cached views are read in between.
NextEviction ==
    \/ /\ nextId <= MaxIdsCache
       /\ \E d \in CacheBodies(BarcodeSeq[nextId]) : CreateAsset(d, "alice")
    \/ nextId <= MaxIdsCache /\ CreateBegin(1, Body(BarcodeSeq[1]), "alice")
    \/ CreateCommit(1)
    \/ \E i \in CacheIds, d \in CachePatches : PartialUpdateAsset(i, d, "alice")
    \/ \E i \in CacheIds, d \in CachePatches : DisposedPartialUpdate(i, d, "alice")
    \/ \E i \in CacheIds : DestroyAsset(i, "alice")
    \/ nextId <= MaxIdsCache /\ \E r \in CacheCreateRows : ImportAssets(r, "alice")
    \/ ListAssets(NoParams, "alice")
    \/ ListDisposed("alice")
    \/ AssetSummary("alice")
    \/ \E k \in RefKinds, n \in CacheNames : CreateReference(k, n, "alice")
    \/ \E k \in RefKinds, n \in CacheNames : UpdateReference(k, n, "alice")
    \/ \E k \in RefKinds, n \in CacheNames : DestroyReference(k, n, "alice")

SpecEviction == Init /\ [][NextEviction]_vars

\* a key of the cache is removed in this step
Evicts == \E k \in DOMAIN cache : k \notin DOMAIN cache'

\* the step is the expiry of an entry and no request
Expires == UNCHANGED <<assets, refs, last, procs>>

SummaryBegin(p, user) ==
    /\ p \notin DOMAIN procs
    /\ "asset_summary_cache" \notin DOMAIN cache
    /\ procs' = (p :> [op |-> "summary", user |-> user,
                       response_data |-> asset_summary(assets, refs)]) @@ procs
    /\ UNCHANGED <<assets, nextId, clock, cache, last, issued, refs, calc>>

SummarySet(p) ==
    /\ p \in DOMAIN procs
    /\ procs[p].op = "summary"
    /\ cache' = CacheSet(cache, "asset_summary_cache", procs[p].response_data)
    /\ last' = Response("summary", 0, NoParams, procs[p].user, 200)
    /\ Finish(p)
    /\ UNCHANGED <<assets, nextId, clock, issued, refs, calc>>

NextReads ==
    \/ \E p \in Procs : SummaryBegin(p, "alice")
    \/ \E p \in Procs : SummarySet(p)
    \/ ListAssets(NoParams, "alice")
    \/ ListDisposed("alice")
    \/ /\ nextId <= MaxIdsCache
       /\ \E d \in CacheBodies(BarcodeSeq[nextId]) : CreateAsset(d, "alice")
    \/ \E i \in CacheIds, d \in CachePatches : PartialUpdateAsset(i, d, "alice")
    \/ \E i \in CacheIds, d \in CachePatches : DisposedPartialUpdate(i, d, "alice")
    \/ \E i \in CacheIds : DestroyAsset(i, "alice")
    \/ \E i \in CacheIds : DisposedDestroy(i, "alice")

SpecReads == Init /\ [][NextReads]_vars

\* the value each cached view has when computed from the tables
Computed(k) ==
    CASE k = "asset_summary_cache" -> asset_summary(assets, refs)
      [] k = "active_assets" -> ActiveAssets(assets, NoParams)
      [] k = "disposed_assets" -> DisposedAssets(assets)

\* C26: whenever no read and no write is in progress, each of
\* asset_summary_cache, active_assets and disposed_assets is absent from the
\* cache or equal to the value computed from the persisted data.
C26_QuiescentCacheIsFresh ==
    procs = [p \in {} |-> NoRow] =>
        \A k \in DOMAIN cache : cache[k] = Computed(k)

\* the same for the two lists, which this specification reads in one step
C26_QuiescentListsAreFresh ==
    procs = [p \in {} |-> NoRow] =>
        \A k \in DOMAIN cache \ {"asset_summary_cache"} : cache[k] = Computed(k)

\* C28: the active-asset cache is transparent: in every state a list request
\* would return exactly the non-disposed assets that match its own filter
\* parameters, and a detail request would find every non-disposed asset, as
\* they would with an empty cache.
C28_ActiveCacheTransparent ==
    /\ \A params \in ListParams :
          get_queryset(assets, cache, params) = ActiveAssets(assets, params)
    /\ \A i \in DOMAIN assets :
          ~assets[i].is_disposed => i \in get_queryset(assets, cache, NoParams)

\* C29: every persisted asset with is_disposed true has its disposal time and
\* its disposal actor set, whichever accepted request made it disposed.
C29_DisposedHasTimeAndActor ==
    \A i \in DOMAIN assets :
        assets[i].is_disposed =>
            /\ assets[i].disposed_at # NullTime
            /\ assets[i].disposed_by # NullUser

\* C30: created_by and asset_code of a persisted asset never change: every
\* update, disposal, restoration or import row that updates the asset leaves
\* both as they were set at creation.
C30_CreatorAndCodeFrozen ==
    [][\A i \in DOMAIN assets \cap DOMAIN assets' :
          /\ assets'[i].created_by = assets[i].created_by
          /\ assets'[i].asset_code = assets[i].asset_code]_vars

\* the part of C30 about the asset code
C30_CodeFrozen ==
    [][\A i \in DOMAIN assets \cap DOMAIN assets' :
          assets'[i].asset_code = assets[i].asset_code]_vars
====
